---- MODULE Spec2Model ----
(***************************************************************************)
(* Model of app.py: the GET /images handler (get_images), the scrape       *)
(* client (fetch_images_from_url), the HTML image extractor                *)
(* (extract_image_urls_from_html) and the vision annotator                 *)
(* (describe_image_with_openai).                                           *)
(*                                                                         *)
(* A Python str is a sequence of one-character strings, so that split,     *)
(* strip, lower, startswith, endswith and the url(...) regular expression  *)
(* are computed as Python computes them.  Python's None is the value None. *)
(* A parsed HTML document is the sequence of its nodes in document order;  *)
(* the empty document is the empty string.                                 *)
(***************************************************************************)
EXTENDS Integers, Sequences, FiniteSets, TLC

VARIABLES pc, url, keySet, scrapeCalls, scrapeStatus, scrapeBody, fetchResult,
          extracted, image_urls, results, visionCalls, visionReplies,
          response, responses

vars == <<pc, url, keySet, scrapeCalls, scrapeStatus, scrapeBody, fetchResult,
          extracted, image_urls, results, visionCalls, visionReplies,
          response, responses>>

-----------------------------------------------------------------------------
(* Bounds of the model *)

MaxElems == 2

MaxLen == 3

-----------------------------------------------------------------------------
(* Python values *)

None == <<"<None>">>

Truthy(v) == v # None /\ v # <<>>

Or(a, b) == IF Truthy(a) THEN a ELSE b

Min(a, b) == IF a <= b THEN a ELSE b

Whitespace == {" ", "\t", "\n", "\r", "\f"}

UpperToLower ==
  ("A" :> "a") @@ ("B" :> "b") @@ ("C" :> "c") @@ ("D" :> "d") @@ ("E" :> "e") @@
  ("F" :> "f") @@ ("G" :> "g") @@ ("H" :> "h") @@ ("I" :> "i") @@ ("J" :> "j") @@
  ("K" :> "k") @@ ("L" :> "l") @@ ("M" :> "m") @@ ("N" :> "n") @@ ("O" :> "o") @@
  ("P" :> "p") @@ ("Q" :> "q") @@ ("R" :> "r") @@ ("S" :> "s") @@ ("T" :> "t") @@
  ("U" :> "u") @@ ("V" :> "v") @@ ("W" :> "w") @@ ("X" :> "x") @@ ("Y" :> "y") @@
  ("Z" :> "z")

Lower(s) == [i \in 1..Len(s) |->
               IF s[i] \in DOMAIN UpperToLower THEN UpperToLower[s[i]] ELSE s[i]]

StartsWith(s, p) == Len(p) <= Len(s) /\ SubSeq(s, 1, Len(p)) = p

EndsWith(s, p) == Len(p) <= Len(s) /\ SubSeq(s, Len(s) - Len(p) + 1, Len(s)) = p

(* s.strip(chars): drop the leading and the trailing characters in chars *)
StripChars(s, chars) ==
  LET keep == {i \in 1..Len(s) : s[i] \notin chars}
  IN IF keep = {} THEN <<>>
     ELSE LET lo == CHOOSE i \in keep : \A j \in keep : i <= j
              hi == CHOOSE i \in keep : \A j \in keep : j <= i
          IN SubSeq(s, lo, hi)

Strip(s) == StripChars(s, Whitespace)

(* s.split(sep) for a one-character sep: always at least one part *)
RECURSIVE Split(_, _)
Split(s, sep) ==
  LET at == {i \in 1..Len(s) : s[i] = sep}
  IN IF at = {} THEN <<s>>
     ELSE LET i == CHOOSE k \in at : \A j \in at : k <= j
          IN <<SubSeq(s, 1, i - 1)>> \o Split(SubSeq(s, i + 1, Len(s)), sep)

UrlOpen == <<"u", "r", "l", "(">>

(* re.findall(r'url\((.*?)\)', s), scanning from position p: the leftmost   *)
(* "url(" whose first following ")" is reached without a newline ('.' does  *)
(* not match "\n"); the scan resumes after that ")".                        *)
RECURSIVE FindAllUrl(_, _)
FindAllUrl(s, p) ==
  IF p + 3 > Len(s) THEN <<>>
  ELSE IF SubSeq(s, p, p + 3) = UrlOpen
       THEN LET close == {q \in (p + 4)..Len(s) :
                            /\ s[q] = ")"
                            /\ \A k \in (p + 4)..(q - 1) : s[k] \notin {")", "\n"}}
            IN IF close = {} THEN FindAllUrl(s, p + 1)
               ELSE LET q == CHOOSE k \in close : TRUE
                    IN <<SubSeq(s, p + 4, q - 1)>> \o FindAllUrl(s, q + 1)
       ELSE FindAllUrl(s, p + 1)

Range(f) == {f[i] : i \in DOMAIN f}

-----------------------------------------------------------------------------
(* HTML nodes: the tag and the attributes the extractor reads *)

Node(tag, src, dsrc, srcset, style, property, content) ==
  [tag |-> tag, src |-> src, dsrc |-> dsrc, srcset |-> srcset,
   style |-> style, property |-> property, content |-> content]

OgImage == <<"o", "g", ":", "i", "m", "a", "g", "e">>

(* the URLs one <source srcset> contributes (lines 54-58) *)
SrcsetUrls(srcset) ==
  IF Truthy(srcset)
  THEN {Split(Strip(part), " ")[1] : part \in Range(Split(srcset, ","))}
  ELSE {}

(* the URLs one style attribute contributes (lines 62-65) *)
StyleUrls(style) ==
  IF style # None
  THEN {StripChars(m, {"'", "\""}) : m \in Range(FindAllUrl(style, 1))}
  ELSE {}

(* the URLs one node contributes over the four scans of the extractor *)
NodeUrls(n) ==
  (IF n.tag = "img" /\ Truthy(Or(n.src, n.dsrc)) THEN {Or(n.src, n.dsrc)} ELSE {})
  \cup (IF n.tag = "source" THEN SrcsetUrls(n.srcset) ELSE {})
  \cup StyleUrls(n.style)
  \cup (IF n.tag = "meta" /\ n.property = OgImage /\ Truthy(n.content)
        THEN {n.content} ELSE {})

extract_image_urls_from_html(html) == UNION {NodeUrls(html[i]) : i \in 1..Len(html)}

-----------------------------------------------------------------------------
(* Inputs: HTML documents *)

a_png == <<"a", ".", "p", "n", "g">>

b_png == <<"b", ".", "p", "n", "g">>

og_png == <<"o", "g", ".", "p", "n", "g">>

logo_svg == <<"l", "o", "g", "o", ".", "s", "v", "g">>

ImgA == Node("img", a_png, None, None, None, None, None)

ImgLazy == Node("img", None, b_png, None, None, None, None)

ImgSvg == Node("img", logo_svg, None, None, None, None, None)

SourceXY ==
  Node("source", None, None,
       <<"x", ".", "j", "p", "g", " ", "1", "x", ",", " ",
         "y", ".", "j", "p", "g", " ", "2", "x">>, None, None, None)

DivBg ==
  Node("div", None, None, None,
       <<"u", "r", "l", "(", "'", "b", "g", ".", "p", "n", "g", "'", ")">>,
       None, None)

MetaOg == Node("meta", None, None, None, None, OgImage, og_png)

TextNode == Node("#text", None, None, None, None, None, None)

CoreNodes == {ImgA, ImgLazy, ImgSvg, SourceXY, DivBg, MetaOg, TextNode}

RECURSIVE SeqsUpTo(_, _)
SeqsUpTo(S, n) ==
  IF n = 0 THEN {<<>>}
  ELSE LET shorter == SeqsUpTo(S, n - 1)
       IN shorter \cup {Append(q, x) : q \in shorter, x \in S}

SrcsetChars == {"x", "y", ",", " ", "\t", "\n"}

SrcsetValues == SeqsUpTo(SrcsetChars, MaxLen) \cup {None}

StyleValues ==
  { <<>>,
    <<"c", "o", "l", "o", "r", ":", "r", "e", "d">>,
    <<"u", "r", "l", "(", ")">>,
    <<"u", "r", "l", "(", "'", "'", ")">>,
    <<"u", "r", "l", "(", "\"", "a", "\"", ")", " ", "u", "r", "l", "(", "b", ")">>,
    <<"u", "r", "l", "(", "a", "\n", "b", ")">>,
    <<"u", "r", "l", "(", "a">>,
    <<"U", "R", "L", "(", "a", ")">> }

UrlPrefixes ==
  { <<>>,
    <<"d", "a", "t", "a", ":">>,
    <<"D", "A", "T", "A", ":">>,
    <<"d", "a", "t", "a", ":", "i", "m", "a", "g", "e", "/", "s", "v", "g", "+",
      "x", "m", "l", ",">> }

UrlStems == {<<>>, <<"a">>}

UrlSuffixes ==
  { <<>>,
    <<".", "s", "v", "g">>, <<".", "S", "V", "G">>, <<".", "i", "c", "o">>,
    <<".", "b", "m", "p">>, <<".", "t", "i", "f", "f">>, <<".", "T", "i", "F", "f">>,
    <<".", "t", "i", "f">>, <<".", "p", "n", "g">>,
    <<".", "s", "v", "g", "?", "x">>, <<"s", "v", "g">> }

UrlValues == {p \o m \o x : p \in UrlPrefixes, m \in UrlStems, x \in UrlSuffixes}

AttrValues == {None, <<>>, a_png, b_png}

GenNodes ==
  {Node("img", s, d, None, None, None, None) : s \in AttrValues, d \in AttrValues}
  \cup {Node("img", u, None, None, None, None, None) : u \in UrlValues}
  \cup {Node("source", None, None, v, None, None, None) : v \in SrcsetValues}
  \cup {Node(t, None, None, None, v, None, None) : t \in {"div", "img"}, v \in StyleValues}
  \cup {Node("meta", None, None, None, None, p, c) :
          p \in {None, OgImage, <<"o", "g", ":", "u", "r", "l">>},
          c \in {None, <<>>, og_png}}

Docs == SeqsUpTo(CoreNodes, MaxElems) \cup {<<n>> : n \in GenNodes}

-----------------------------------------------------------------------------
(* Inputs: the scrape service's answers *)

Statuses == {200, 304, 404, 503}

Body(kind, success, rawKind, rawHtml, dataKind, dRawKind, dRawHtml) ==
  [kind |-> kind, success |-> success, rawKind |-> rawKind, rawHtml |-> rawHtml,
   dataKind |-> dataKind, dRawKind |-> dRawKind, dRawHtml |-> dRawHtml]

NoBody == Body("none", "absent", "absent", <<>>, "absent", "absent", <<>>)

(* a body that is not JSON, and a JSON body that is not an object *)
NonObjectBodies ==
  {Body(k, "absent", "absent", <<>>, "absent", "absent", <<>>) : k \in {"notjson", "array"}}

(* shape (a): {"rawHtml": ...}, or {} *)
FlatBodies ==
  {Body("object", "absent", "absent", <<>>, "absent", "absent", <<>>)}
  \cup {Body("object", "absent", "string", d, "absent", "absent", <<>>) : d \in Docs}

(* shape (b): {"success": ..., "data": ...} *)
EnvelopedBodies ==
  {Body("object", s, "absent", <<>>, k, "absent", <<>>) :
     s \in {"true", "false"}, k \in {"absent", "null", "array", "object"}}
  \cup {Body("object", s, "absent", <<>>, "object", "null", <<>>) : s \in {"true", "false"}}
  \cup {Body("object", s, "absent", <<>>, "object", "string", d) :
          s \in {"true", "false"}, d \in Docs}

Bodies == NonObjectBodies \cup FlatBodies \cup EnvelopedBodies

-----------------------------------------------------------------------------
(* Inputs: the vision service's answers *)

Reply(kind, content) == [kind |-> kind, content |-> content]

Skipped == Reply("skipped", None)

Replies ==
  { Reply("error", None), Reply("nochoices", None), Reply("completion", None),
    Reply("completion", <<" ", "A", " ", "c", "a", "t", ".", "\n">>),
    Reply("completion", <<"l", "o", "g", "o">>) }

PageUrl == <<"h", "t", "t", "p", ":", "/", "/", "p">>

UrlParams == {None, <<>>, PageUrl}

-----------------------------------------------------------------------------
(* The scrape client: fetch_images_from_url, from the service's answer on *)

MaxImages == 2

MissingUrl == "Missing 'url' parameter"

KeyNotSet ==
  "FIRECRAWL_API_KEY is not set. Please check your .env file or environment variables."

NotSupported == <<"Not a supported image format">>

DescriptionUnavailable == <<"Description unavailable">>

(* response.raise_for_status() raises for the 4xx and 5xx statuses only *)
RaisesForStatus(status) == 400 <= status /\ status < 600

Raised(error) == [raised |-> TRUE, error |-> error, urls |-> {}]

Returned(urls) == [raised |-> FALSE, error |-> "", urls |-> urls]

(* lines 104-125: what the call returns, or the exception it raises *)
FetchOutcome(status, body) ==
  IF RaisesForStatus(status) THEN Raised("HTTPError")
  ELSE IF body.kind = "notjson" THEN Raised("JSONDecodeError")
  ELSE IF body.kind # "object" THEN Raised("AttributeError")
  ELSE IF body.success # "true" THEN Returned({})
  ELSE IF body.dataKind \in {"null", "array"} THEN Raised("AttributeError")
  ELSE IF body.dataKind = "absent" \/ body.dRawKind # "string" \/ body.dRawHtml = <<>>
       THEN Returned({})
  ELSE Returned(extract_image_urls_from_html(body.dRawHtml))

(* list(image_urls): a set is listed in an order the hash seed decides *)
Orderings(S) ==
  {f \in [1..Cardinality(S) -> S] : \A i, j \in DOMAIN f : f[i] = f[j] => i = j}

(* the cut of line 166 left out *)
Truncate_NoLimit(list) == list

(* image_urls[:2] *)
Truncate(list) == SubSeq(list, 1, Min(MaxImages, Len(list)))

-----------------------------------------------------------------------------
(* The vision annotator: describe_image_with_openai *)

UnsupportedExts ==
  { <<".", "s", "v", "g">>, <<".", "i", "c", "o">>, <<".", "b", "m", "p">>,
    <<".", "t", "i", "f", "f">> }

(* line 133 without .lower() *)
IsUnsupported_CaseSensitive(image_url) ==
  \/ \E ext \in UnsupportedExts : EndsWith(image_url, ext)
  \/ StartsWith(image_url, <<"d", "a", "t", "a", ":">>)

(* lines 131-136 *)
IsUnsupported(image_url) ==
  \/ \E ext \in UnsupportedExts : EndsWith(Lower(image_url), ext)
  \/ StartsWith(image_url,
                <<"d", "a", "t", "a", ":", "i", "m", "a", "g", "e", "/",
                  "s", "v", "g", "+", "x", "m", "l">>)
  \/ StartsWith(image_url, <<"d", "a", "t", "a", ":">>)

(* lines 139-156: the description made of the service's answer *)
DescriptionOf(reply) ==
  IF reply.kind = "completion" /\ reply.content # None
  THEN Strip(reply.content)
  ELSE DescriptionUnavailable

-----------------------------------------------------------------------------
(* The request handler: get_images *)

NoResponse == [status |-> 0, kind |-> "none", images |-> <<>>, error |-> ""]

ErrorResponse(status, error) ==
  [status |-> status, kind |-> "error", images |-> <<>>, error |-> error]

ImagesResponse(images) ==
  [status |-> 200, kind |-> "images", images |-> images, error |-> ""]

Respond(r) ==
  /\ response' = r
  /\ responses' = responses + 1
  /\ pc' = "done"

Init ==
  /\ pc = "validate"
  /\ url \in UrlParams
  /\ keySet \in BOOLEAN
  /\ scrapeCalls = 0
  /\ scrapeStatus = 0
  /\ scrapeBody = NoBody
  /\ fetchResult = "none"
  /\ extracted = <<>>
  /\ image_urls = <<>>
  /\ results = <<>>
  /\ visionCalls = <<>>
  /\ visionReplies = <<>>
  /\ response = NoResponse
  /\ responses = 0

(* line 161 testing "url is None" in place of "not url" *)
Validate_NoneOnly ==
  /\ pc = "validate"
  /\ IF url = None
     THEN Respond(ErrorResponse(400, MissingUrl))
     ELSE /\ pc' = "fetch"
          /\ UNCHANGED <<response, responses>>
  /\ UNCHANGED <<url, keySet, scrapeCalls, scrapeStatus, scrapeBody, fetchResult,
                 extracted, image_urls, results, visionCalls, visionReplies>>

(* lines 160-162 *)
Validate ==
  /\ pc = "validate"
  /\ IF ~Truthy(url)
     THEN Respond(ErrorResponse(400, MissingUrl))
     ELSE /\ pc' = "fetch"
          /\ UNCHANGED <<response, responses>>
  /\ UNCHANGED <<url, keySet, scrapeCalls, scrapeStatus, scrapeBody, fetchResult,
                 extracted, image_urls, results, visionCalls, visionReplies>>

(* the key check of lines 80-81 moved after the POST of line 97 *)
FetchStart_CallBeforeKeyCheck ==
  /\ pc = "fetch"
  /\ scrapeCalls' = scrapeCalls + 1
  /\ IF ~keySet
     THEN /\ fetchResult' = "raised"
          /\ Respond(ErrorResponse(500, KeyNotSet))
     ELSE /\ pc' = "scrape"
          /\ UNCHANGED <<fetchResult, response, responses>>
  /\ UNCHANGED <<url, keySet, scrapeStatus, scrapeBody, extracted, image_urls,
                 results, visionCalls, visionReplies>>

(* lines 164, 80-97: the key check, then the POST to the scrape service *)
FetchStart ==
  /\ pc = "fetch"
  /\ IF ~keySet
     THEN /\ fetchResult' = "raised"
          /\ Respond(ErrorResponse(500, KeyNotSet))
          /\ UNCHANGED scrapeCalls
     ELSE /\ scrapeCalls' = scrapeCalls + 1
          /\ pc' = "scrape"
          /\ UNCHANGED <<fetchResult, response, responses>>
  /\ UNCHANGED <<url, keySet, scrapeStatus, scrapeBody, extracted, image_urls,
                 results, visionCalls, visionReplies>>

(* line 97 raising (no answer from the service), caught at lines 172-174 *)
ScrapeFails ==
  /\ pc = "scrape"
  /\ fetchResult' = "raised"
  /\ Respond(ErrorResponse(500, "ConnectionError"))
  /\ UNCHANGED <<url, keySet, scrapeCalls, scrapeStatus, scrapeBody, extracted,
                 image_urls, results, visionCalls, visionReplies>>

(* lines 97-125 and 164-174: the service answers; the handler lists and cuts *)
(* the URLs, and answers at once when the call raised or nothing is retained *)
ScrapeReply ==
  /\ pc = "scrape"
  /\ \E status \in Statuses, body \in Bodies :
       LET out == FetchOutcome(status, body)
       IN /\ scrapeStatus' = status
          /\ scrapeBody' = body
          /\ IF out.raised
             THEN /\ fetchResult' = "raised"
                  /\ Respond(ErrorResponse(500, out.error))
                  /\ UNCHANGED <<extracted, image_urls>>
             ELSE /\ fetchResult' = "returned"
                  /\ \E order \in Orderings(out.urls) :
                       /\ extracted' = order
                       /\ image_urls' = Truncate(order)
                       /\ IF Truncate(order) = <<>>
                          THEN Respond(ImagesResponse(<<>>))
                          ELSE /\ pc' = "describe"
                               /\ UNCHANGED <<response, responses>>
  /\ UNCHANGED <<url, keySet, scrapeCalls, results, visionCalls, visionReplies>>

(* lines 170-171: append the result; answer after the last retained image *)
Annotated(img_url, reply, desc) ==
  LET rs == Append(results, [url |-> img_url, description |-> desc])
  IN /\ results' = rs
     /\ visionReplies' = Append(visionReplies, reply)
     /\ IF Len(rs) = Len(image_urls)
        THEN Respond(ImagesResponse(rs))
        ELSE /\ pc' = "describe"
             /\ UNCHANGED <<response, responses>>

(* lines 168-169, 131-139: the local filter, else the call to the vision service *)
Describe ==
  /\ pc = "describe"
  /\ LET img_url == image_urls[Len(results) + 1]
     IN IF IsUnsupported(img_url)
        THEN /\ Annotated(img_url, Skipped, NotSupported)
             /\ UNCHANGED visionCalls
        ELSE /\ visionCalls' = Append(visionCalls, img_url)
             /\ pc' = "vision"
             /\ UNCHANGED <<results, visionReplies, response, responses>>
  /\ UNCHANGED <<url, keySet, scrapeCalls, scrapeStatus, scrapeBody, fetchResult,
                 extracted, image_urls>>

(* the try/except of lines 129 and 154-156 left out: a failed call reaches *)
(* the handler's except of lines 172-174                                  *)
VisionReply_Propagates ==
  /\ pc = "vision"
  /\ \E reply \in Replies :
       IF reply.kind = "completion" /\ reply.content # None
       THEN Annotated(image_urls[Len(results) + 1], reply, DescriptionOf(reply))
       ELSE /\ Respond(ErrorResponse(500, "Exception"))
            /\ UNCHANGED <<results, visionReplies>>
  /\ UNCHANGED <<url, keySet, scrapeCalls, scrapeStatus, scrapeBody, fetchResult,
                 extracted, image_urls, visionCalls>>

(* lines 139-156: the vision service answers or fails *)
VisionReply ==
  /\ pc = "vision"
  /\ \E reply \in Replies :
       Annotated(image_urls[Len(results) + 1], reply, DescriptionOf(reply))
  /\ UNCHANGED <<url, keySet, scrapeCalls, scrapeStatus, scrapeBody, fetchResult,
                 extracted, image_urls, visionCalls>>

Next == Validate \/ FetchStart \/ ScrapeFails \/ ScrapeReply \/ Describe \/ VisionReply

Spec == Init /\ [][Next]_vars

-----------------------------------------------------------------------------
(* Properties *)

Count(seq, x) == Cardinality({i \in 1..Len(seq) : seq[i] = x})

IsSuccessStatus(status) == 200 <= status /\ status < 300

(* C1: when the scrape service answers a non-empty-url request with a       *)
(* non-success status, the handler answers 500 with an error field and      *)
(* makes no vision call.                                                    *)
C1_NonSuccessStatusAborts ==
  (Truthy(url) /\ scrapeStatus # 0 /\ ~IsSuccessStatus(scrapeStatus)) =>
     /\ pc = "done"
     /\ response.status = 500
     /\ response.kind = "error"
     /\ visionCalls = <<>>

ReplyFailed(reply) ==
  reply.kind \in {"error", "nochoices"} \/ (reply.kind = "completion" /\ reply.content = None)

(* C2: after a successful scrape a failed vision call gives that image the  *)
(* description "Description unavailable" and nothing else changes: the      *)
(* request answers 200 with one entry per retained image, in their order,   *)
(* each other image described by its own vision answer.                     *)
C2_AnnotationFailureIsolated ==
  fetchResult = "returned" =>
     /\ \A i \in 1..Len(results) :
          /\ results[i].url = image_urls[i]
          /\ ReplyFailed(visionReplies[i]) =>
               results[i].description = <<"Description unavailable">>
          /\ (visionReplies[i].kind = "completion" /\ visionReplies[i].content # None) =>
               results[i].description = Strip(visionReplies[i].content)
     /\ pc = "done" =>
          /\ response.status = 200
          /\ response.kind = "images"
          /\ Len(response.images) = Len(image_urls)
          /\ \A i \in 1..Len(image_urls) :
               /\ response.images[i].url = image_urls[i]
               /\ response.images[i].description = results[i].description

C2_Witness ==
  /\ pc = "done"
  /\ response.status = 200
  /\ Len(response.images) = 2
  /\ visionReplies[1].kind = "nochoices"
  /\ visionReplies[2].kind = "completion"
  /\ response.images[1].description = <<"Description unavailable">>
  /\ response.images[2].description = <<"l", "o", "g", "o">>

(* C3: at most 2 images are annotated whatever extraction found: at most 2  *)
(* annotator invocations and vision calls, the 200 response holds           *)
(* min(2, number of extracted URLs) images, and they are the first two of   *)
(* the extracted list.                                                      *)
C3_AtMostTwoAnnotated ==
  /\ Len(visionCalls) <= 2
  /\ Len(results) <= 2
  /\ fetchResult = "returned" =>
       /\ Len(image_urls) = Min(2, Len(extracted))
       /\ \A i \in 1..Len(image_urls) : image_urls[i] = extracted[i]
  /\ (pc = "done" /\ response.status = 200) =>
       /\ Len(response.images) = Min(2, Len(extracted))
       /\ \A i \in 1..Len(response.images) : response.images[i].url = extracted[i]

C3_Witness ==
  /\ pc = "done"
  /\ Len(extracted) >= 3
  /\ Len(response.images) = 2
  /\ Len(visionCalls) = 2

IsFlatWithHtml(body) ==
  /\ body.kind = "object" /\ body.success = "absent" /\ body.dataKind = "absent"
  /\ body.rawKind = "string" /\ body.rawHtml # <<>>

IsEnvelopedWithHtml(body) ==
  /\ body.kind = "object" /\ body.success = "true" /\ body.dataKind = "object"
  /\ body.dRawKind = "string" /\ body.dRawHtml # <<>>

HtmlOf(body) == IF IsFlatWithHtml(body) THEN body.rawHtml ELSE body.dRawHtml

(* C4: for a 200 answer of either shape, flat {rawHtml} or enveloped        *)
(* {success: true, data: {rawHtml}}, the images found in the HTML are       *)
(* returned; the flat shape is not treated as empty.                        *)
C4_BothShapesSupported ==
  (pc = "done" /\ scrapeStatus = 200
     /\ (IsFlatWithHtml(scrapeBody) \/ IsEnvelopedWithHtml(scrapeBody))) =>
     /\ response.status = 200
     /\ Range(extracted) = extract_image_urls_from_html(HtmlOf(scrapeBody))
     /\ Len(response.images) = Min(2, Len(extracted))

HasNoHtml(body) ==
  /\ body.kind = "object"
  /\ \/ /\ body.success = "absent" /\ body.dataKind = "absent"
        /\ (body.rawKind = "absent" \/ body.rawHtml = <<>>)
     \/ /\ body.success = "true" /\ body.rawKind = "absent"
        /\ \/ body.dataKind \in {"absent", "null"}
           \/ /\ body.dataKind = "object"
              /\ (body.dRawKind # "string" \/ body.dRawHtml = <<>>)

(* C5: a 200 answer whose raw HTML is absent or empty, in either shape and  *)
(* also when the data object is missing, null or lacks rawHtml, is answered *)
(* 200 with {"images": []} and no vision call.                              *)
C5_EmptyHtmlIsNotAnError ==
  (scrapeStatus = 200 /\ HasNoHtml(scrapeBody)) =>
     /\ pc = "done"
     /\ response = [status |-> 200, kind |-> "images", images |-> <<>>, error |-> ""]
     /\ visionCalls = <<>>

(* the claim's filter: a suffix that lowercases to one of the four         *)
(* extensions, or the prefix data:                                         *)
RejectedLocally(u) ==
  \/ \E n \in {4, 5} :
       /\ Len(u) >= n
       /\ Lower(SubSeq(u, Len(u) - n + 1, Len(u))) \in
            { <<".", "s", "v", "g">>, <<".", "i", "c", "o">>, <<".", "b", "m", "p">>,
              <<".", "t", "i", "f", "f">> }
  \/ (Len(u) >= 5 /\ <<u[1], u[2], u[3], u[4], u[5]>> = <<"d", "a", "t", "a", ":">>)

(* C6: a URL ending, in any case, in .svg, .ico, .bmp or .tiff, or          *)
(* beginning with data:, is described "Not a supported image format" and    *)
(* never sent to the vision service; every other URL is sent exactly once.  *)
C6_LocalFilterPrecedesCall ==
  /\ \A i \in 1..Len(results) :
       IF RejectedLocally(results[i].url)
       THEN /\ results[i].description = <<"Not a supported image format">>
            /\ Count(visionCalls, results[i].url) = 0
       ELSE Count(visionCalls, results[i].url) = 1
  /\ \A j \in 1..Len(visionCalls) : ~RejectedLocally(visionCalls[j])
  /\ pc = "vision" => Count(visionCalls, image_urls[Len(results) + 1]) = 1

C6_Witness ==
  /\ pc = "done"
  /\ Len(results) = 1
  /\ results[1].url = <<"a", ".", "T", "i", "F", "f">>
  /\ results[1].description = <<"Not a supported image format">>
  /\ visionCalls = <<>>

(* C7: a request whose url parameter is absent or empty is answered 400     *)
(* with {"error": "Missing 'url' parameter"}, and neither the scrape        *)
(* service nor the vision service is called.                                *)
C7_MissingUrlIs400 ==
  (url = None \/ url = <<>>) =>
     /\ pc \in {"validate", "done"}
     /\ scrapeCalls = 0
     /\ visionCalls = <<>>
     /\ pc = "done" =>
          response = [status |-> 400, kind |-> "error", images |-> <<>>,
                      error |-> "Missing 'url' parameter"]

C7_Witness ==
  /\ pc = "done"
  /\ url = <<>>
  /\ response.status = 400
  /\ scrapeCalls = 0

(* C8: extract returns no duplicates and only non-empty strings, for every  *)
(* HTML input.                                                              *)
C8_ExtractedNonEmptyDistinct ==
  /\ \A i \in 1..Len(extracted) : extracted[i] # <<>>
  /\ \A i, j \in 1..Len(extracted) : extracted[i] = extracted[j] => i = j

Stage(p) ==
  CASE p = "validate" -> 1
    [] p = "fetch" -> 2
    [] p = "scrape" -> 3
    [] p \in {"describe", "vision"} -> 4
    [] p = "done" -> 5

(* the positions of image_urls a vision call was issued for, so far *)
CalledAt ==
  {i \in 1..Len(image_urls) :
     \/ (i <= Len(results) /\ visionReplies[i].kind # "skipped")
     \/ (i = Len(results) + 1 /\ pc = "vision")}

C9_State ==
  /\ scrapeCalls <= 1
  /\ scrapeCalls = 1 => (Truthy(url) /\ keySet /\ Stage(pc) >= 3)
  /\ (Truthy(url) /\ ~keySet) =>
       /\ pc \in {"validate", "fetch", "done"}
       /\ pc = "done" => (response.status = 500 /\ response.kind = "error")
  /\ visionCalls # <<>> => (fetchResult = "returned" /\ scrapeCalls = 1)
  /\ Len(visionCalls) = Cardinality(CalledAt)
  /\ \A i \in CalledAt :
       visionCalls[Cardinality({k \in CalledAt : k <= i})] = image_urls[i]
  /\ responses <= 1
  /\ (pc = "done") <=> (responses = 1)
  /\ (responses = 1) <=> (response.kind # "none")
  /\ fetchResult = "raised" => (pc = "done" /\ response.status = 500 /\ visionCalls = <<>>)

C9_Step ==
  /\ Stage(pc') >= Stage(pc)
  /\ scrapeCalls' \in {scrapeCalls, scrapeCalls + 1}
  /\ \/ visionCalls' = visionCalls
     \/ /\ pc = "describe" /\ pc' = "vision"
        /\ \E u \in Range(image_urls) : visionCalls' = Append(visionCalls, u)
  /\ pc = "vision" => visionCalls' = visionCalls
  /\ responses' \in {responses, responses + 1}
  /\ pc = "done" => UNCHANGED vars

IsSpace(c) == c \in {" ", "\t", "\n"}

(* the claim's URL of a srcset entry: what stands before the first         *)
(* whitespace run, leading whitespace aside                                *)
EntryUrl(entry) ==
  LET first == {i \in 1..Len(entry) : ~IsSpace(entry[i])}
  IN IF first = {} THEN <<>>
     ELSE LET lo == CHOOSE i \in first : \A j \in first : i <= j
              stop == {i \in lo..Len(entry) : IsSpace(entry[i])}
              hi == IF stop = {} THEN Len(entry)
                    ELSE (CHOOSE i \in stop : \A j \in stop : i <= j) - 1
          IN SubSeq(entry, lo, hi)

(* C10: a <source srcset> contributes, per comma-separated entry, exactly   *)
(* the substring before the first whitespace run (space, tab or newline),   *)
(* never the descriptor.                                                    *)
C10_SrcsetUrlBeforeWhitespace ==
  (fetchResult = "returned" /\ IsEnvelopedWithHtml(scrapeBody)
     /\ Len(scrapeBody.dRawHtml) = 1
     /\ scrapeBody.dRawHtml[1].tag = "source"
     /\ Truthy(scrapeBody.dRawHtml[1].srcset)) =>
     Range(extracted) =
       {EntryUrl(entry) : entry \in Range(Split(scrapeBody.dRawHtml[1].srcset, ","))}

====
